---- MODULE Spec2Model ----
(***************************************************************************)
(* scialg: the ordinary-differential-equation solver (src/src/ode.rs, its  *)
(* steppers and the Dormand-Prince step-size controller).                  *)
(*                                                                         *)
(* f64 values are modelled as a small binary-free floating format: a value *)
(* is either NaN or an integer count of quanta of size 1/Scale.  Sums are  *)
(* exact, products and quotients are rounded to the nearest quantum (ties  *)
(* to even), a product of a tiny value underflows to zero, and NaN         *)
(* propagates as in IEEE 754.  This keeps what the code's control flow     *)
(* depends on: comparisons that are false on NaN, f64::max/min that drop   *)
(* a NaN operand, and step sizes that underflow.                           *)
(***************************************************************************)
EXTENDS Integers, Sequences, FiniteSets, TLC

\* Precision of the modelled f64: one quantum is 1 / (Base * Base).
Base == 1000

Scale == Base * Base

----------------------------------------------------------------------------
(* f64 arithmetic *)

\* The element of a one-element set.  A value that is used more than once is
\* named by drawing it from a one-element set: Only({ e(x) : x \in {a} }).
Only(S) == CHOOSE r \in S : r = r

NaN == [nan |-> TRUE, v |-> 0]

F(n) == [nan |-> FALSE, v |-> n]

IsNaN(a) == a.nan

Abs(n) == IF n < 0 THEN 0 - n ELSE n

\* q + p/d rounded to the nearest integer, ties to even; 0 <= p, 0 < d.
RoundEven(q, p, d) ==
    LET q1 == q + (p \div d)
        r  == p % d
    IN  IF 2 * r < d THEN q1
        ELSE IF 2 * r > d THEN q1 + 1
        ELSE IF q1 % 2 = 0 THEN q1 ELSE q1 + 1

\* (a * n) divided by d as <<quotient, remainder>>, for a, n >= 0 and d > 0,
\* by doubling, so that no intermediate exceeds the machine word.
RECURSIVE MulDivMod(_, _, _)
MulDivMod(a, n, d) ==
    IF n = 0 THEN <<0, 0>>
    ELSE Only({ LET r2 == 2 * h[2]
                    q2 == 2 * h[1] + (r2 \div d)
                    r3 == (r2 % d) + (IF n % 2 = 1 THEN a ELSE 0)
                IN  <<q2 + (r3 \div d), r3 % d>>
                : h \in {MulDivMod(a, n \div 2, d)} })

\* a * b / Scale on magnitudes as <<integer part, remainder * Scale>>, by three
\* limbs of size Base.
MulLimbs(a, b) ==
    LET a2 == a \div Scale
        a1 == (a % Scale) \div Base
        a0 == a % Base
        b2 == b \div Scale
        b1 == (b % Scale) \div Base
        b0 == b % Base
    IN  << a2 * b2 * Scale + (a2 * b1 + a1 * b2) * Base
             + (a2 * b0 + a1 * b1 + a0 * b2),
           (a1 * b0 + a0 * b1) * Base + a0 * b0 >>

\* |a * b| rounded to the nearest quantum.
MulMag(a, b) == Only({ RoundEven(p[1], p[2], Scale) : p \in {MulLimbs(a, b)} })

\* |a * b| truncated to a quantum, and |a * b| <= n decided exactly (for the
\* root searches below).
MulFloor(a, b) == Only({ p[1] + (p[2] \div Scale) : p \in {MulLimbs(a, b)} })

MulLe(a, b, n) ==
    \E p \in {MulLimbs(a, b)} :
        \E q \in {p[1] + (p[2] \div Scale)} :
            q < n \/ (q = n /\ p[2] % Scale = 0)

\* |a| / |b| rounded, on magnitudes; b > 0.
DivMag(a, b) ==
    Only({ RoundEven((a \div b) * Scale + qr[1], qr[2], b)
           : qr \in {MulDivMod(a % b, Scale, b)} })

Sign(a, b) == IF (a < 0) = (b < 0) THEN 1 ELSE 0 - 1

\* The literal num / den, as rustc evaluates it to the nearest f64.
Dec(num, den) == F(Sign(num, den) * DivMag(Abs(num), Abs(den)))

FAdd(a, b) ==
    Only({ IF x.nan \/ y.nan THEN NaN ELSE F(x.v + y.v) : x \in {a}, y \in {b} })

FSub(a, b) ==
    Only({ IF x.nan \/ y.nan THEN NaN ELSE F(x.v - y.v) : x \in {a}, y \in {b} })

FNeg(a) == Only({ IF x.nan THEN NaN ELSE F(0 - x.v) : x \in {a} })

FMul(a, b) ==
    Only({ IF x.nan \/ y.nan THEN NaN
           ELSE F(Sign(x.v, y.v) * MulMag(Abs(x.v), Abs(y.v)))
           : x \in {a}, y \in {b} })

\* x / 0.0 is an infinity (or NaN for 0.0 / 0.0); the model has no infinity
\* and lets it decay to NaN at once, as inf - inf and inf * 0.0 do.
FDiv(a, b) ==
    Only({ IF x.nan \/ y.nan \/ y.v = 0 THEN NaN
           ELSE F(Sign(x.v, y.v) * DivMag(Abs(x.v), Abs(y.v)))
           : x \in {a}, y \in {b} })

FAbs(a) == Only({ IF x.nan THEN NaN ELSE F(Abs(x.v)) : x \in {a} })

\* Comparisons: false as soon as one side is NaN.
FLe(a, b) == \E x \in {a}, y \in {b} : ~x.nan /\ ~y.nan /\ x.v <= y.v

FLt(a, b) == \E x \in {a}, y \in {b} : ~x.nan /\ ~y.nan /\ x.v < y.v

FGt(a, b) == FLt(b, a)

FEq(a, b) == \E x \in {a}, y \in {b} : ~x.nan /\ ~y.nan /\ x.v = y.v

\* f64::max and f64::min return the other operand when one is NaN.
FMax(a, b) ==
    Only({ IF x.nan THEN y ELSE IF y.nan THEN x ELSE IF x.v >= y.v THEN x ELSE y
           : x \in {a}, y \in {b} })

FMin(a, b) ==
    Only({ IF x.nan THEN y ELSE IF y.nan THEN x ELSE IF x.v <= y.v THEN x ELSE y
           : x \in {a}, y \in {b} })

\* The largest m in lo..hi with P(m), for P true at lo and monotone.
RECURSIVE Bisect(_, _, _)
Bisect(P(_), lo, hi) ==
    IF lo >= hi THEN lo
    ELSE Only({ IF P(mid) THEN Bisect(P, mid, hi) ELSE Bisect(P, lo, mid - 1)
                : mid \in {(lo + hi + 1) \div 2} })

\* f64::sqrt: NaN below zero.
FSqrt(a) ==
    Only({ IF x.nan \/ x.v < 0 THEN NaN
           ELSE LET Below(m) == MulLe(m, m, x.v)
                IN  F(Bisect(Below, 0, 46 * Scale))
           : x \in {a} })

\* m^5 <= n for m, n at or above one; m stays at or below 4.6, which keeps
\* m^5 in the word.
Pow5Le(m, n) ==
    \E m2 \in {MulFloor(m, m)} :
        \E m4 \in {MulFloor(m2, m2)} : MulLe(m4, m, n)

\* p^5 * n <= 1 for n below one and p at or above one.
InvPow5Le(p, n) ==
    \E n1 \in {MulFloor(n, p)} : n1 <= Scale /\
    \E n2 \in {MulFloor(n1, p)} : n2 <= Scale /\
    \E n3 \in {MulFloor(n2, p)} : n3 <= Scale /\
    \E n4 \in {MulFloor(n3, p)} : n4 <= Scale /\ MulLe(n4, p, Scale)

\* x.powf(e) for the exponents the controller uses: 0.0 (beta) and a fifth
\* (alpha), of either sign.  The fifth root is found by bisection: below one
\* its inverse is searched, the largest p with p^5 * x <= 1 (at most 16 for
\* one quantum); from one on the root itself.
FPowf(a, b) ==
    Only({ IF e.nan THEN NaN
           ELSE IF e.v = 0 THEN F(Scale)
           ELSE IF x.nan \/ x.v < 0 THEN NaN
           ELSE IF x.v = 0 THEN (IF e.v > 0 THEN F(0) ELSE NaN)
           ELSE IF x.v < Scale
           THEN LET Below(p) == InvPow5Le(p, x.v)
                    inv == F(Bisect(Below, Scale, 16 * Scale))
                IN  IF e.v < 0 THEN inv ELSE FDiv(F(Scale), inv)
           ELSE LET Below(m) == Pow5Le(m, x.v)
                    root == F(Bisect(Below, Scale, 46 * (Scale \div 10)))
                IN  IF e.v < 0 THEN FDiv(F(Scale), root) ELSE root
           : x \in {a}, e \in {b} })

----------------------------------------------------------------------------
(* Vector<N>: src/src/vector.rs *)

zero(n) == [i \in 1..n |-> F(0)]

add(a, b) ==
    Only({ [i \in 1..Len(x) |-> FAdd(x[i], y[i])] : x \in {a}, y \in {b} })

sub(a, b) ==
    Only({ [i \in 1..Len(x) |-> FSub(x[i], y[i])] : x \in {a}, y \in {b} })

mul(a, rhs) ==
    Only({ [i \in 1..Len(x) |-> FMul(x[i], r)] : x \in {a}, r \in {rhs} })

div(a, rhs) ==
    Only({ [i \in 1..Len(x) |-> FDiv(x[i], r)] : x \in {a}, r \in {rhs} })

----------------------------------------------------------------------------
(* Controller: src/src/ode/controller.rs *)

VARIABLES
    controller,   \* the Controller: h_next, err_old, rejected
    last          \* the latest call observed: its arguments and its outcome

\* a controller born with the flag set
Controller_new_rejected ==
    [h_next |-> F(0), err_old |-> Dec(1, 10000), rejected |-> TRUE]

Controller_new == [h_next |-> F(0), err_old |-> Dec(1, 10000), rejected |-> FALSE]

beta == Dec(0, 1)

alpha == FSub(Dec(2, 10), FMul(beta, Dec(75, 100)))

safe == Dec(9, 10)

min_scale == Dec(2, 10)

max_scale == Dec(10, 1)

\* AcceptScale without the clamp to [min_scale, max_scale].
AcceptScale_unclamped(c, err) ==
    IF FEq(err, F(0)) THEN max_scale
    ELSE FMul(FMul(safe, FPowf(err, FNeg(alpha))), FPowf(c.err_old, beta))

\* lines 24-29: the scale of an accepted step.
AcceptScale(c, err) ==
    IF FEq(err, F(0)) THEN max_scale
    ELSE FMax(min_scale,
              FMin(max_scale, FMul(FMul(safe, FPowf(err, FNeg(alpha))),
                                   FPowf(c.err_old, beta))))

\* AcceptHNext without the cap after a rejection.
AcceptHNext_uncapped(c, h, scale) == FMul(h, scale)

\* lines 30-34: the next step size proposed by an accepted step.
AcceptHNext(c, h, scale) ==
    FMul(h, IF c.rejected THEN FMin(scale, Dec(1, 1)) ELSE scale)

\* AcceptErrOld without the floor.
AcceptErrOld_unfloored(err) == err

\* line 35: the error remembered by an accepted step.
AcceptErrOld(err) == FMax(err, Dec(1, 10000))

\* AcceptReturn handing back the proposal instead of the size used.
AcceptReturn_proposal(c, h) == c.h_next

\* line 37: the step size an accepting call returns.
AcceptReturn(c, h) == h

\* RejectScale without the safety factor.
RejectScale_unsafe(err) == FMax(FPowf(err, FNeg(alpha)), min_scale)

\* RejectScale with the exponent's sign lost.
RejectScale_growing(err) == FMax(FMul(safe, FPowf(err, alpha)), min_scale)

\* line 41: the scale of a rejected step.
RejectScale(err) == FMax(FMul(safe, FPowf(err, FNeg(alpha))), min_scale)

\* a rejecting call that leaves no trace.
RejectUpdate_silent(c) == c

\* a rejecting call that also forgets the proposal and the last error.
RejectUpdate_resetting(c) ==
    [c EXCEPT !.rejected = TRUE, !.h_next = F(0), !.err_old = Dec(1, 10000)]

\* line 42: a rejecting call's effect on the controller.
RejectUpdate(c) == [c EXCEPT !.rejected = TRUE]

\* Controller::success(&mut self, err, h) -> (bool, f64): the controller after
\* the call and the pair returned.
success(c, err, h) ==
    IF FLe(err, Dec(1, 1))
    THEN Only({ [ctl |-> [c1 EXCEPT !.err_old = AcceptErrOld(err),
                                    !.rejected = FALSE],
                 ok  |-> TRUE,
                 h   |-> AcceptReturn(c1, h)]
                : c1 \in {[c EXCEPT !.h_next =
                                 AcceptHNext(c, h, AcceptScale(c, err))]} })
    ELSE [ctl |-> RejectUpdate(c), ok |-> FALSE,
          h |-> FMul(h, RejectScale(err))]

\* The record kept of one call: its arguments, whether the controller had
\* rejected the call before, and the pair returned.
NoCall ==
    [called |-> FALSE, err |-> F(0), h |-> F(0), after_reject |-> FALSE,
     ok |-> FALSE, ret |-> F(0)]

Call(c, err, h, r) ==
    [called |-> TRUE, err |-> err, h |-> h, after_reject |-> c.rejected,
     ok |-> r.ok, ret |-> r.h]

----------------------------------------------------------------------------
(* Steppers: src/src/ode/stepper.rs and src/src/ode/stepper/ *)

VARIABLES
    steps,        \* ODESolver.steps: the steps still to take
    step_size,    \* ODESolver.step_size
    cur_step,     \* ODESolver.cur_step
    ode,          \* ODESolver.ode: the derivative function (by name)
    method,       \* the StepperMethod the solver was built with
    stepper,      \* ODESolver.stepper: the boxed stepper's fields
    data,         \* ODESolver.data: the trajectory
    pc,           \* where the caller stands: new, run, step, decided, done (ctl; lib, returned)
    steps0,       \* the step count given to ODESolver::new
    calls         \* how many times run() has invoked stepper.step()

vars ==
    << controller, last, steps, step_size, cur_step, ode, method,
       stepper, data, pc, steps0, calls >>

\* The derivative functions a caller supplies: fn(f64, Vector<N>) -> Vector<N>.
\*   growth      |_, y| y
\*   decay       |_, y| y * -4.0
\*   gravity     |_, x| [x[2], x[3], 0.0, -9.81]       (the test of ode.rs)
\*   sqrt_y      |_, y| [y[0].sqrt()]
\*   sqrt_neg_t  |t, _| [(-t).sqrt()]
derive(f, t0, y0) ==
    Only({ CASE f = "growth"     -> y
             [] f = "decay"      -> mul(y, Dec(-4, 1))
             [] f = "gravity"    -> << y[3], y[4], F(0), Dec(-981, 100) >>
             [] f = "sqrt_y"     -> [i \in 1..Len(y) |-> FSqrt(y[i])]
             [] f = "sqrt_neg_t" -> [i \in 1..Len(y) |-> FSqrt(FNeg(t))]
           : t \in {t0}, y \in {y0} })

StepperData_new(h, p0) ==
    [h_cur |-> h, h_new |-> h, x_cur |-> F(0), x_old |-> F(0),
     y_cur |-> p0, y_out |-> p0]

\* Euler_dy without the step size.
Euler_dy_unscaled(sd, f, h) == add(sd.y_cur, derive(f, sd.x_cur, sd.y_cur))

\* Euler_dy stepping backwards.
Euler_dy_backwards(sd, f, h) == sub(sd.y_cur, mul(derive(f, sd.x_cur, sd.y_cur), h))

Euler_dy(sd, f, h) == add(sd.y_cur, mul(derive(f, sd.x_cur, sd.y_cur), h))

Midpoint_dy(sd, f, h) ==
    LET k1 == mul(derive(f, sd.x_cur, sd.y_cur), h)
        k2 == mul(derive(f, sd.x_cur, add(sd.y_cur, div(k1, Dec(2, 1)))), h)
    IN  add(sd.y_cur, k2)

\* RungeKutta_sum with four equal weights.
RungeKutta_sum_equal(sd, k1, k2, k3, k4) ==
    add(add(add(add(sd.y_cur, div(k1, Dec(4, 1))), div(k2, Dec(4, 1))),
            div(k3, Dec(4, 1))), div(k4, Dec(4, 1)))

RungeKutta_sum(sd, k1, k2, k3, k4) ==
    add(add(add(add(sd.y_cur, div(k1, Dec(6, 1))), div(k2, Dec(3, 1))),
            div(k3, Dec(3, 1))), div(k4, Dec(6, 1)))

RungeKutta_dy(sd, f, h) ==
    Only({ Only({ Only({ Only({ RungeKutta_sum(sd, k1, k2, k3, k4)
        : k4 \in {mul(derive(f, sd.x_cur, add(sd.y_cur, k3)), h)} })
        : k3 \in {mul(derive(f, sd.x_cur,
                             add(sd.y_cur, div(k2, Dec(2, 1)))), h)} })
        : k2 \in {mul(derive(f, sd.x_cur,
                             add(sd.y_cur, div(k1, Dec(2, 1)))), h)} })
        : k1 \in {mul(derive(f, sd.x_cur, sd.y_cur), h)} })

\* the state a fixed-step stepper computes: self.dy(self.data.h_cur)
FixedStep_dy(m, st, f) ==
    CASE m = "Euler"      -> Euler_dy(st.data, f, st.data.h_cur)
      [] m = "Midpoint"   -> Midpoint_dy(st.data, f, st.data.h_cur)
      [] m = "RungeKutta" -> RungeKutta_dy(st.data, f, st.data.h_cur)

\* FixedStep advancing the stored time as well.
FixedStep_advancing(m, st, f) ==
    [st EXCEPT !.data.y_cur = FixedStep_dy(m, st, f),
               !.data.x_old = st.data.x_cur,
               !.data.x_cur = FAdd(st.data.x_cur, st.data.h_cur)]

\* Euler::step, Midpoint::step, RungeKutta::step: the stepper after the call
\* (the value returned is its y_cur).
FixedStep(m, st, f) == [st EXCEPT !.data.y_cur = FixedStep_dy(m, st, f)]

\* DormandPrince::new (the dense-output vectors rcont1..rcont5 are never
\* read or written again and are left out).
DormandPrince_new(h, p0) ==
    [x |-> F(0), x_old |-> F(0), y |-> p0, dydx |-> zero(Len(p0)),
     h_did |-> F(0), h_next |-> F(0),
     y_out |-> zero(Len(p0)), y_err |-> zero(Len(p0)),
     k2 |-> zero(Len(p0)), k3 |-> zero(Len(p0)), k4 |-> zero(Len(p0)),
     k5 |-> zero(Len(p0)), k6 |-> zero(Len(p0)), dydxnew |-> zero(Len(p0)),
     atol |-> Dec(1, 100), rtol |-> Dec(1, 100),
     data |-> StepperData_new(h, p0)]

\* DormandPrince::error
RECURSIVE ErrorSum(_, _)
ErrorSum(d, n) ==
    IF n = 0 THEN F(0)
    ELSE Only({ FAdd(ErrorSum(d, n - 1), FMul(q, q))
                : q \in {FDiv(d.y_err[n],
                              FAdd(d.atol,
                                   FMul(d.rtol, FMax(FAbs(d.y[n]),
                                                     FAbs(d.y_out[n])))))} })

DormandPrince_error(d0) ==
    Only({ FSqrt(FDiv(ErrorSum(d, Len(d.y)), F(Len(d.y) * Scale)))
           : d \in {d0} })

\* The Dormand-Prince 5(4) parameters of DormandPrince::dy.
Tableau ==
    [C2  |-> Dec(2, 10),          C3  |-> Dec(3, 10),
     C4  |-> Dec(8, 10),          C5  |-> Dec(8, 9),
     A21 |-> Dec(2, 10),
     A31 |-> Dec(3, 40),          A32 |-> Dec(9, 40),
     A41 |-> Dec(44, 45),         A42 |-> Dec(-56, 15),
     A43 |-> Dec(32, 9),
     A51 |-> Dec(19372, 6561),    A52 |-> Dec(-25360, 2187),
     A53 |-> Dec(64448, 6561),    A54 |-> Dec(-212, 729),
     A61 |-> Dec(9017, 3168),     A62 |-> Dec(-355, 33),
     A63 |-> Dec(46732, 5247),    A64 |-> Dec(49, 176),
     A65 |-> Dec(-5103, 18656),
     A71 |-> Dec(35, 384),        A72 |-> Dec(0, 1),
     A73 |-> Dec(500, 1113),      A74 |-> Dec(125, 192),
     A75 |-> Dec(-2187, 6784),    A76 |-> Dec(11, 84),
     E1  |-> Dec(71, 57600),      E3  |-> Dec(-71, 16695),
     E4  |-> Dec(71, 1920),       E5  |-> Dec(-17253, 339200),
     E6  |-> Dec(22, 525),        E7  |-> Dec(-1, 40)]

\* DormandPrince::dy, assignment by assignment: the stages k2..k6, the
\* solution y_out with its derivative dydxnew, and the error estimate y_err.
dy_k2(d0, f) ==
    Only({ [d EXCEPT !.k2 =
               derive(f, FAdd(d.x, FMul(T.C2, d.data.h_cur)),
                      add(d.y, mul(mul(d.dydx, T.A21), d.data.h_cur)))]
           : d \in {d0}, T \in {Tableau} })

dy_k3(d0, f) ==
    Only({ [d EXCEPT !.k3 =
               derive(f, FAdd(d.x, FMul(T.C3, d.data.h_cur)),
                      add(d.y, mul(add(mul(d.dydx, T.A31), mul(d.k2, T.A32)),
                                   d.data.h_cur)))]
           : d \in {d0}, T \in {Tableau} })

dy_k4(d0, f) ==
    Only({ [d EXCEPT !.k4 =
               derive(f, FAdd(d.x, FMul(T.C4, d.data.h_cur)),
                      add(d.y, mul(add(add(mul(d.dydx, T.A41),
                                           mul(d.k2, T.A42)),
                                       mul(d.k3, T.A43)),
                                   d.data.h_cur)))]
           : d \in {d0}, T \in {Tableau} })

dy_k5(d0, f) ==
    Only({ [d EXCEPT !.k5 =
               derive(f, FAdd(d.x, FMul(T.C5, d.data.h_cur)),
                      add(d.y, mul(add(add(add(mul(d.dydx, T.A51),
                                               mul(d.k2, T.A52)),
                                           mul(d.k3, T.A53)),
                                       mul(d.k4, T.A54)),
                                   d.data.h_cur)))]
           : d \in {d0}, T \in {Tableau} })

dy_k6(d0, f) ==
    Only({ [d EXCEPT !.k6 =
               derive(f, FAdd(d.x, d.data.h_cur),
                      add(d.y, mul(add(add(add(add(mul(d.dydx, T.A61),
                                                   mul(d.k2, T.A62)),
                                               mul(d.k3, T.A63)),
                                           mul(d.k4, T.A64)),
                                       mul(d.k5, T.A65)),
                                   d.data.h_cur)))]
           : d \in {d0}, T \in {Tableau} })

dy_y_out(d0, f) ==
    Only({ [d EXCEPT !.y_out =
               add(d.y, mul(add(add(add(add(add(mul(d.dydx, T.A71),
                                                mul(d.k2, T.A72)),
                                            mul(d.k3, T.A73)),
                                        mul(d.k4, T.A74)),
                                    mul(d.k5, T.A75)),
                                mul(d.k6, T.A76)),
                            d.data.h_cur))]
           : d \in {d0}, T \in {Tableau} })

dy_dydxnew(d0, f) ==
    Only({ [d EXCEPT !.dydxnew = derive(f, FAdd(d.x, d.data.h_cur), d.y_out)]
           : d \in {d0} })

dy_y_err(d0, f) ==
    Only({ [d EXCEPT !.y_err =
               mul(add(add(add(add(add(mul(d.dydx, T.E1), mul(d.k3, T.E3)),
                                   mul(d.k4, T.E4)),
                               mul(d.k5, T.E5)),
                           mul(d.k6, T.E6)),
                       mul(d.dydxnew, T.E7)),
                   d.data.h_cur)]
           : d \in {d0}, T \in {Tableau} })

DormandPrince_dy(d, f) ==
    dy_y_err(dy_dydxnew(dy_y_out(dy_k6(dy_k5(dy_k4(dy_k3(dy_k2(d, f), f),
                                                   f), f), f), f), f), f)

\* One pass of the loop of DormandPrince::step (lines 291-293): the stages,
\* the error and the controller's verdict.
Attempt(d, c, f) ==
    Only({ Only({ [d |-> d1, err |-> err,
                   r |-> success(c, err, d1.data.h_cur)]
                  : err \in {DormandPrince_error(d1)} })
           : d1 \in {DormandPrince_dy(d, f)} })

\* line 297: a rejected pass continues with the step size returned.
Retry(d, h_new) == [d EXCEPT !.data.h_cur = h_new]

\* a commit that keeps the old solution and slope
Commit_stale(d, c) ==
    [d EXCEPT !.x_old = d.x, !.h_did = d.data.h_cur,
              !.x = FAdd(d.x, d.data.h_cur), !.h_next = c.h_next]

\* a commit that takes the proposed step size for the next attempt
Commit_adopting(d, c) ==
    [d EXCEPT !.dydx = d.dydxnew, !.y = d.y_out, !.x_old = d.x,
              !.h_did = d.data.h_cur, !.x = FAdd(d.x, d.data.h_cur),
              !.h_next = c.h_next, !.data.h_cur = c.h_next]

\* lines 300-305: the commit after the loop.
Commit(d, c) ==
    [d EXCEPT !.dydx = d.dydxnew, !.y = d.y_out, !.x_old = d.x,
              !.h_did = d.data.h_cur, !.x = FAdd(d.x, d.data.h_cur),
              !.h_next = c.h_next]

----------------------------------------------------------------------------
(* ODESolver: src/src/ode.rs *)

\* The largest step count a run is started with.
MaxSteps == 3

Methods == {"Euler", "Midpoint", "RungeKutta", "DormandPrince"}

\* The initial-value problems solved: a derivative function and a start.
Problems ==
    { [ode |-> "growth",     p0 |-> << Dec(1, 1) >>],
      [ode |-> "decay",      p0 |-> << Dec(1, 1) >>],
      [ode |-> "sqrt_y",     p0 |-> << Dec(1, 1) >>],
      [ode |-> "sqrt_y",     p0 |-> << Dec(-1, 1) >>],
      [ode |-> "sqrt_neg_t", p0 |-> << Dec(1, 1) >>],
      [ode |-> "gravity",
       p0 |-> << F(0), Dec(15, 10), Dec(1, 1), Dec(1, 1) >>] }

StepSizes == { Dec(1, 2), Dec(1, 1000) }

\* what DormandPrince::step hands back to run() for the trajectory
DormandPrince_result(d) == d.y

\* ODESolver::new: the stepper built for the method chosen.
Stepper_new(m, h, p0) ==
    IF m = "DormandPrince" THEN DormandPrince_new(h, p0)
    ELSE [data |-> StepperData_new(h, p0)]

Init ==
    \E m \in Methods, n \in 0..MaxSteps, h \in StepSizes, pr \in Problems :
        /\ steps = n
        /\ step_size = h
        /\ cur_step = pr.p0
        /\ ode = pr.ode
        /\ method = m
        /\ stepper = Stepper_new(m, h, pr.p0)
        /\ controller = Controller_new
        /\ data = << >>
        /\ pc = "new"
        /\ steps0 = n
        /\ calls = 0
        /\ last = NoCall

\* a loop that goes on at zero
RunContinues_inclusive(s) == s >= 0

\* line 49: while self.steps > 0
RunContinues(s) == s > 0

\* the caller invokes run()
Run ==
    /\ pc \in {"new", "done"}
    /\ pc' = "run"
    /\ UNCHANGED << controller, last, steps, step_size, cur_step, ode, method,
                    stepper, data, steps0, calls >>

\* StepFixed keeping only the latest state.
StepFixed_overwriting ==
    /\ pc = "run"
    /\ RunContinues(steps)
    /\ method # "DormandPrince"
    /\ stepper' = FixedStep(method, stepper, ode)
    /\ data' = IF data = << >> THEN << stepper'.data.y_cur >>
               ELSE [data EXCEPT ![Len(data)] = stepper'.data.y_cur]
    /\ steps' = steps - 1
    /\ calls' = calls + 1
    /\ UNCHANGED << controller, last, step_size, cur_step, ode, method, pc,
                    steps0 >>

\* one pass of run()'s loop over a fixed-step stepper
StepFixed ==
    /\ pc = "run"
    /\ RunContinues(steps)
    /\ method # "DormandPrince"
    /\ stepper' = FixedStep(method, stepper, ode)
    /\ data' = Append(data, stepper'.data.y_cur)
    /\ steps' = steps - 1
    /\ calls' = calls + 1
    /\ UNCHANGED << controller, last, step_size, cur_step, ode, method, pc,
                    steps0 >>

\* run() is about to call DormandPrince::step, or step's loop starts a pass
InStep ==
    /\ method = "DormandPrince"
    /\ \/ pc = "run" /\ RunContinues(steps)
       \/ pc = "step"

\* a pass of DormandPrince::step's loop up to the controller's verdict:
\* dy, error, success; the verdict (succ, h_new) is kept in last.ok, last.ret
StepAttempt ==
    /\ InStep
    /\ \E a \in {Attempt(stepper, controller, ode)} :
           /\ stepper' = a.d
           /\ controller' = a.r.ctl
           /\ last' = Call(controller, a.err, stepper.data.h_cur, a.r)
    /\ calls' = IF pc = "run" THEN calls + 1 ELSE calls
    /\ pc' = "decided"
    /\ UNCHANGED << steps, step_size, cur_step, ode, method, data, steps0 >>

\* the pass was rejected: the loop goes round with the smaller step size
StepRetry ==
    /\ pc = "decided"
    /\ ~last.ok
    /\ stepper' = Retry(stepper, last.ret)
    /\ pc' = "step"
    /\ UNCHANGED << controller, last, steps, step_size, cur_step, ode, method,
                    data, steps0, calls >>

\* the pass was accepted: break, the commit, and run()'s push and count
StepCommit ==
    /\ pc = "decided"
    /\ last.ok
    /\ stepper' = Commit(stepper, controller)
    /\ data' = Append(data, DormandPrince_result(stepper'))
    /\ steps' = steps - 1
    /\ pc' = "run"
    /\ UNCHANGED << controller, last, step_size, cur_step, ode, method,
                    steps0, calls >>

\* run() returns
Return ==
    /\ pc = "run"
    /\ ~RunContinues(steps)
    /\ pc' = "done"
    /\ UNCHANGED << controller, last, steps, step_size, cur_step, ode, method,
                    stepper, data, steps0, calls >>

Next == Run \/ StepFixed \/ StepAttempt \/ StepRetry \/ StepCommit \/ Return

Spec == Init /\ [][Next]_vars

\* StepAttempt as seen in pc, StepFixed as seen in steps: both actions are
\* enabled whenever their guard holds, and no other action makes these changes
StepAttempt_pc == InStep /\ pc' = "decided"

StepFixed_steps ==
    /\ pc = "run"
    /\ RunContinues(steps)
    /\ method \in Methods \ {"DormandPrince"}
    /\ steps' = steps - 1

\* run() is executed by one thread that never pauses: once called, each of its
\* steps that can be taken is taken.  Nothing obliges the caller to call run().
FairSpec ==
    /\ Spec
    /\ WF_steps(StepFixed_steps)
    /\ WF_pc(StepAttempt_pc)
    /\ WF_vars(StepRetry)
    /\ WF_vars(StepCommit)
    /\ WF_vars(Return)

----------------------------------------------------------------------------
(* The controller on its own: any sequence of calls of success *)

\* The errors and step sizes handed to success, in quanta and in units.
ErrInputs ==
    { F(0), F(5), F(6), Dec(1, 2), Dec(1, 1), F(Scale + 1), Dec(2, 1),
      Dec(2000, 1), Dec(2100, 1), NaN }

HInputs == { F(1), F(6), Dec(1, 1) }

InitCtl ==
    /\ controller = Controller_new
    /\ last = NoCall
    /\ pc = "ctl"
    /\ steps = 0
    /\ step_size = F(0)
    /\ cur_step = << >>
    /\ ode = "none"
    /\ method = "none"
    /\ stepper = [data |-> StepperData_new(F(0), << >>)]
    /\ data = << >>
    /\ steps0 = 0
    /\ calls = 0

CtlSuccess ==
    /\ pc = "ctl"
    /\ \E err \in ErrInputs, h \in HInputs :
          \E r \in {success(controller, err, h)} :
              /\ controller' = r.ctl
              /\ last' = Call(controller, err, h, r)
    /\ UNCHANGED << steps, step_size, cur_step, ode, method, stepper, data,
                    pc, steps0, calls >>

NextCtl == CtlSuccess

SpecCtl == InitCtl /\ [][NextCtl]_vars

----------------------------------------------------------------------------
(* The solver on the test of ode.rs: a projectile under gravity *)

\* let steps = 300
ProjectileSteps == 300

\* ODESolver::new(steps, 0.001, [0.0, 1.5, 1.0, 1.0], gravity, Euler)
InitProjectile ==
    /\ steps = ProjectileSteps
    /\ step_size = Dec(1, 1000)
    /\ cur_step = << F(0), Dec(15, 10), Dec(1, 1), Dec(1, 1) >>
    /\ ode = "gravity"
    /\ method = "Euler"
    /\ stepper = Stepper_new("Euler", Dec(1, 1000),
                             << F(0), Dec(15, 10), Dec(1, 1), Dec(1, 1) >>)
    /\ controller = Controller_new
    /\ data = << >>
    /\ pc = "new"
    /\ steps0 = ProjectileSteps
    /\ calls = 0
    /\ last = NoCall

NextProjectile == Run \/ StepFixed \/ Return

SpecProjectile == InitProjectile /\ [][NextProjectile]_vars

----------------------------------------------------------------------------
(* Library functions called on their own: one call, then its outcome *)

\* The passes of a loop followed before it is taken not to end.
MaxPasses == 64

\* How a call ends: with a panic, or by returning a value.
Panics(msg) == [panic |-> TRUE, loops |-> FALSE, value |-> msg]

Returns(v) == [panic |-> FALSE, loops |-> FALSE, value |-> v]

\* ... or not at all: the call is still looping after MaxPasses passes.
Loops == [panic |-> FALSE, loops |-> TRUE, value |-> << >>]

\* The record kept of a library call.
LibCall(name, args, out) ==
    [called |-> TRUE, fn |-> name, args |-> args,
     panic |-> out.panic, loops |-> out.loops, value |-> out.value]

\* No solver and no controller take part in these calls.
NoSolver ==
    /\ controller = Controller_new
    /\ steps = 0
    /\ step_size = F(0)
    /\ cur_step = << >>
    /\ ode = "none"
    /\ method = "none"
    /\ stepper = [data |-> StepperData_new(F(0), << >>)]
    /\ data = << >>
    /\ steps0 = 0
    /\ calls = 0

InitLib ==
    /\ NoSolver
    /\ last = NoCall
    /\ pc = "lib"

\* the caller makes the call and holds its outcome
Called(name, args, out) ==
    /\ pc = "lib"
    /\ last' = LibCall(name, args, out)
    /\ pc' = "returned"
    /\ UNCHANGED << controller, steps, step_size, cur_step, ode, method,
                    stepper, data, steps0, calls >>

----------------------------------------------------------------------------
(* Vector<N>::new and cross_product: src/src/vector.rs *)

\* Vector::new without the length test: short input padded, long input cut.
Vector_new_lenient(N, coeff) ==
    Returns([i \in 1..N |-> IF i <= Len(coeff) THEN coeff[i] ELSE F(0)])

\* Vector::<N>::new(coeff: &[f64])
Vector_new(N, coeff) ==
    IF Len(coeff) # N
    THEN Panics("length of input does not match dimensionality of vector")
    ELSE Returns([i \in 1..N |-> coeff[i]])

\* Vector::<N>::cross_product(self, _other): assert_eq!(N, 3); todo!()
cross_product(N, a, b) ==
    IF N # 3 THEN Panics("assertion left == right failed")
    ELSE Panics("not yet implemented")

\* The dimensions, slices and vectors the calls are made with.
VectorDims == {1, 2, 3}

SliceValues == { F(0), Dec(1, 1), Dec(-25, 10) }

Slices == UNION { [1..n -> SliceValues] : n \in 0..4 }

Axes(N) == { [i \in 1..N |-> IF i = k THEN Dec(1, 1) ELSE F(0)] : k \in 1..N }

CallVectorNew ==
    \E N \in VectorDims, coeff \in Slices :
        Called("Vector::new", <<N, coeff>>, Vector_new(N, coeff))

CallCrossProduct ==
    \E N \in VectorDims :
        \E a \in Axes(N), b \in Axes(N) :
            Called("cross_product", <<N, a, b>>, cross_product(N, a, b))

NextVector == CallVectorNew \/ CallCrossProduct

SpecVector == InitLib /\ [][NextVector]_vars

----------------------------------------------------------------------------
(* quick: src/src/sort.rs *)

\* Indices are usize and count from 0 as in the source; arr[a] of the source
\* is arr[a + 1] here.  A subtraction below zero panics (overflow checks on),
\* as does an index at or beyond arr.len().  The state of a call:
\*   arr, il, ir, stack, and within a partition i, j, pivot;
\*   panic: "" or the message of the panic that ended the call.
NoPanic == ""

SubOverflow == "attempt to subtract with overflow"

OutOfBounds == "index out of bounds"

\* let m: usize = 7
quick_m == 7

InBounds(st, a) == a >= 0 /\ a < Len(st.arr)

\* arr.swap(a, b)
swap(st0, a, b) ==
    Only({ IF st.panic # NoPanic THEN st
           ELSE IF ~InBounds(st, a) \/ ~InBounds(st, b)
           THEN [st EXCEPT !.panic = OutOfBounds]
           ELSE [st EXCEPT !.arr[a + 1] = st.arr[b + 1],
                           !.arr[b + 1] = st.arr[a + 1]]
           : st \in {st0} })

\* if arr[a] > arr[b] { arr.swap(a, b) }
swap_if_gt(st0, a, b) ==
    Only({ IF st.panic # NoPanic THEN st
           ELSE IF ~InBounds(st, a) \/ ~InBounds(st, b)
           THEN [st EXCEPT !.panic = OutOfBounds]
           ELSE IF st.arr[a + 1] > st.arr[b + 1] THEN swap(st, a, b)
           ELSE st
           : st \in {st0} })

\* insertion that stops after one exchange
insert_down_once(st0, j) ==
    Only({ IF j > 0 /\ st.arr[j + 1] < st.arr[j] THEN swap(st, j, j - 1)
           ELSE st
           : st \in {st0} })

\* while j > 0 && arr[j] < arr[j - 1] { arr.swap(j, j - 1); j -= 1; }
RECURSIVE insert_down(_, _)
insert_down(st0, j) ==
    Only({ IF j > 0 /\ st.arr[j + 1] < st.arr[j]
           THEN insert_down(swap(st, j, j - 1), j - 1)
           ELSE st
           : st \in {st0} })

\* for i in 1..arr.len(): the insertion sort, over the whole of arr
RECURSIVE insertion(_, _)
insertion(st0, i) ==
    Only({ IF i >= Len(st.arr) THEN st
           ELSE insertion(insert_down(st, i), i + 1)
           : st \in {st0} })

\* while arr[i] < pivot { i += 1; }
RECURSIVE scan_up(_)
scan_up(st0) ==
    Only({ IF st.panic # NoPanic THEN st
           ELSE IF ~InBounds(st, st.i) THEN [st EXCEPT !.panic = OutOfBounds]
           ELSE IF st.arr[st.i + 1] < st.pivot
           THEN scan_up([st EXCEPT !.i = st.i + 1])
           ELSE st
           : st \in {st0} })

\* while arr[j] > pivot { j -= 1; }
RECURSIVE scan_down(_)
scan_down(st0) ==
    Only({ IF st.panic # NoPanic THEN st
           ELSE IF ~InBounds(st, st.j) THEN [st EXCEPT !.panic = OutOfBounds]
           ELSE IF st.arr[st.j + 1] > st.pivot
           THEN IF st.j = 0 THEN [st EXCEPT !.panic = SubOverflow]
                ELSE scan_down([st EXCEPT !.j = st.j - 1])
           ELSE st
           : st \in {st0} })

\* the inner loop: i += 1; j -= 1; the two scans; break if j < i; swap
RECURSIVE partition_loop(_)
partition_loop(st0) ==
    Only({ IF st.panic # NoPanic THEN st
           ELSE IF st.j = 0 THEN [st EXCEPT !.panic = SubOverflow]
           ELSE Only({ IF t.panic # NoPanic \/ t.j < t.i THEN t
                       ELSE partition_loop(swap(t, t.i, t.j))
                       : t \in {scan_down(scan_up(
                                   [st EXCEPT !.i = st.i + 1,
                                              !.j = st.j - 1]))} })
           : st \in {st0} })

\* the median of three moved to il + 1 with sentinels at il and ir
median_of_three(st0) ==
    Only({ swap_if_gt(
             swap_if_gt(
               swap_if_gt(swap(st, (st.il + st.ir) \div 2, st.il + 1),
                          st.il, st.ir),
               st.il + 1, st.ir),
             st.il, st.il + 1)
           : st \in {st0} })

\* let mut i = il + 1; let mut j = ir; let pivot = arr[il + 1];
start_scan(st0) ==
    Only({ IF st.panic # NoPanic THEN st
           ELSE IF ~InBounds(st, st.il + 1) THEN [st EXCEPT !.panic = OutOfBounds]
           ELSE [st EXCEPT !.i = st.il + 1, !.j = st.ir,
                           !.pivot = st.arr[st.il + 2]]
           : st \in {st0} })

\* arr[il + 1] = arr[j]; arr[j] = pivot;
place_pivot(st0) ==
    Only({ IF st.panic # NoPanic THEN st
           ELSE IF ~InBounds(st, st.j) \/ ~InBounds(st, st.il + 1)
           THEN [st EXCEPT !.panic = OutOfBounds]
           ELSE [st EXCEPT !.arr[st.il + 2] = st.arr[st.j + 1],
                           !.arr[st.j + 1] = st.pivot]
           : st \in {st0} })

\* if ir - i + 1 >= j - 1 { push i, ir; ir = j - 1 } else { push il, j - 1;
\* il = i }
push_larger(st0) ==
    Only({ IF st.panic # NoPanic THEN st
           ELSE IF st.ir < st.i \/ st.j = 0 THEN [st EXCEPT !.panic = SubOverflow]
           ELSE IF st.ir - st.i + 1 >= st.j - 1
           THEN [st EXCEPT !.stack = st.stack \o << st.i, st.ir >>,
                           !.ir = st.j - 1]
           ELSE [st EXCEPT !.stack = st.stack \o << st.il, st.j - 1 >>,
                           !.il = st.i]
           : st \in {st0} })

\* one partitioning pass of the outer loop
partition(st) ==
    push_larger(place_pivot(partition_loop(start_scan(median_of_three(st)))))

\* ir = stack.pop().unwrap(); il = stack.pop().unwrap();
pop_range(st0) ==
    Only({ IF Len(st.stack) < 2
           THEN [st EXCEPT !.panic = "called Option::unwrap() on a None value"]
           ELSE [st EXCEPT !.ir = st.stack[Len(st.stack)],
                           !.il = st.stack[Len(st.stack) - 1],
                           !.stack = SubSeq(st.stack, 1, Len(st.stack) - 2)]
           : st \in {st0} })

\* the outer loop of quick
RECURSIVE quick_loop(_, _)
quick_loop(st0, passes) ==
    Only({ IF st.panic # NoPanic THEN Panics(st.panic)
           ELSE IF passes = 0 THEN Loops
           ELSE IF st.ir < st.il THEN Panics(SubOverflow)
           ELSE IF st.ir - st.il < quick_m
           THEN Only({ IF sorted.stack = << >> THEN Returns(sorted.arr)
                       ELSE quick_loop(pop_range(sorted), passes - 1)
                       : sorted \in {insertion(st, 1)} })
           ELSE quick_loop(partition(st), passes - 1)
           : st \in {st0} })

\* quick(arr: &mut [T]): how the call ends, and arr as it is left
quick(arr) ==
    IF Len(arr) = 0 THEN Panics(SubOverflow)
    ELSE quick_loop([arr |-> arr, il |-> 0, ir |-> Len(arr) - 1,
                     stack |-> << >>, i |-> 0, j |-> 0, pivot |-> 0,
                     panic |-> NoPanic], MaxPasses)

\* The slices sorted: every slice of up to three elements, every slice of
\* eight (one more than m) over three values, and every slice of nine over
\* two.
SortValues == {1, 2, 3}

QuickInputs ==
    UNION { [1..n -> SortValues] : n \in {0, 1, 2, 3, 8} }
        \cup [1..9 -> {1, 2}]

CallQuick == \E arr \in QuickInputs : Called("quick", <<arr>>, quick(arr))

NextSort == CallQuick

SpecSort == InitLib /\ [][NextSort]_vars


----------------------------------------------------------------------------
(* fourier.rs: the index arithmetic of fft.  No index depends on the value *)
(* of an element, so an element is modelled by the position it started at  *)
(* and the butterflies, which combine values in place, by their accesses.  *)

FftMaxLen == 128

RECURSIVE Pow2(_)
Pow2(k) == IF k = 0 THEN 1 ELSE 2 * Pow2(k - 1)

\* the loop handing back what is left of its input
bit_reversed_loop_idle(result, n, left) == n

\* for _ in 0..bit_size { result = (result << 1) | (n & 1); n >>= 1; }  in u8
RECURSIVE bit_reversed_loop(_, _, _)
bit_reversed_loop(result, n, left) ==
    IF left = 0 THEN result
    ELSE bit_reversed_loop(((result * 2) % 256) + (n % 2), n \div 2, left - 1)

bit_reversed(a, bit_size) == bit_reversed_loop(0, a, bit_size)

\* (n as f32).log2().round() as u8: the k with 2^(k - 1/2) <= n < 2^(k + 1/2),
\* and 0 for n = 0 (the cast of -inf saturates)
fft_order(n) ==
    IF n = 0 THEN 0
    ELSE CHOOSE k \in 0..16 : Pow2(2 * k) <= 2 * n * n /\ 2 * n * n < Pow2(2 * k + 2)

\* for j in 0..n { nj = bit_reversed(j as u8, order); if j < nj { arr.swap(j, nj) } }
\* the passes from..upto-1 of the loop, halved to keep the evaluation shallow
RECURSIVE bit_reversal(_, _, _, _)
bit_reversal(st0, order, from, upto) ==
    Only({ IF st.panic # NoPanic \/ from >= upto THEN st
           ELSE IF upto = from + 1
           THEN Only({ IF from < nj THEN swap(st, from, nj) ELSE st
                       : nj \in {bit_reversed(from % 256, order)} })
           ELSE Only({ bit_reversal(bit_reversal(st, order, from, mid), order, mid, upto)
                       : mid \in {(from + upto) \div 2} })
           : st \in {st0} })

\* the butterfly loops read and write arr[i + j] and arr[i + j + offset]
butterfly_in_bounds(n, order) ==
    \A k \in 0..(order - 1) :
        \A offset \in {Pow2(k)} :
            \A i \in { i \in 0..(n - 1) : i % (2 * offset) = 0 } :
                \A j \in 0..(offset - 1) : i + j + offset < n

fft(arr) ==
    Only({ Only({ IF st.panic # NoPanic THEN Panics(st.panic)
                  ELSE IF ~butterfly_in_bounds(Len(arr), order) THEN Panics(OutOfBounds)
                  ELSE Returns(st.arr)
                  : st \in {bit_reversal([arr |-> arr, panic |-> NoPanic], order, 0, Len(arr))} })
           : order \in {fft_order(Len(arr))} })

FftInputs == { [i \in 1..n |-> i - 1] : n \in 0..FftMaxLen }

CallFft == \E arr \in FftInputs : Called("fft", << arr >>, fft(arr))

NextFourier == CallFft

SpecFourier == InitLib /\ [][NextFourier]_vars


----------------------------------------------------------------------------
(* The fixed-step steppers evaluation by evaluation: src/src/ode/stepper/  *)
(* euler.rs, midpoint.rs, runge_kutta.rs.  stepper.ks holds the stages     *)
(* k1.. computed so far in the call of dy; last.evals the arguments of the *)
(* calls of the derivative function made by the current call of step, in   *)
(* order; last.y0 the stored state when step was entered; last.commits the *)
(* assignments to y_cur made by it.                                        *)

\* the number of let-bound evaluations of derive in dy
Stages(m) ==
    CASE m = "Euler"      -> 1
      [] m = "Midpoint"   -> 2
      [] m = "RungeKutta" -> 4

\* every evaluation made at the stored state
StagePoint_start(m, sd, ks) == sd.y_cur

\* the state handed to derive by the evaluation after those of ks
StagePoint(m, sd, ks) ==
    CASE Len(ks) = 0 -> sd.y_cur
      [] Len(ks) = 1 -> add(sd.y_cur, div(ks[1], Dec(2, 1)))
      [] Len(ks) = 2 -> add(sd.y_cur, div(ks[2], Dec(2, 1)))
      [] Len(ks) = 3 -> add(sd.y_cur, ks[3])

\* the last line of dy: the new state from the stages
StageSum(m, sd, ks) ==
    CASE m = "Euler"      -> add(sd.y_cur, ks[1])
      [] m = "Midpoint"   -> add(sd.y_cur, ks[2])
      [] m = "RungeKutta" -> RungeKutta_sum(sd, ks[1], ks[2], ks[3], ks[4])

NoEvals == [called |-> FALSE, y0 |-> << >>, evals |-> << >>, commits |-> 0]

InitEvals ==
    \E m \in Methods \ {"DormandPrince"}, n \in 0..MaxSteps, h \in StepSizes,
       pr \in Problems :
        /\ steps = n
        /\ step_size = h
        /\ cur_step = pr.p0
        /\ ode = pr.ode
        /\ method = m
        /\ stepper = [data |-> StepperData_new(h, pr.p0), ks |-> << >>]
        /\ controller = Controller_new
        /\ data = << >>
        /\ pc = "new"
        /\ steps0 = n
        /\ calls = 0
        /\ last = NoEvals

\* run() calls step(), which calls dy(h_cur)
StepEnter ==
    /\ pc = "run"
    /\ RunContinues(steps)
    /\ pc' = "dy"
    /\ stepper' = [stepper EXCEPT !.ks = << >>]
    /\ last' = [called |-> TRUE, y0 |-> stepper.data.y_cur, evals |-> << >>,
                commits |-> 0]
    /\ calls' = calls + 1
    /\ UNCHANGED << controller, steps, step_size, cur_step, ode, method, data,
                    steps0 >>

\* one let of dy: (self.data.derive)(self.data.x_cur, ...) * h
Evaluate ==
    /\ pc = "dy"
    /\ Len(stepper.ks) < Stages(method)
    /\ \E at \in {StagePoint(method, stepper.data, stepper.ks)} :
           /\ stepper' = [stepper EXCEPT !.ks =
                  Append(stepper.ks,
                         mul(derive(ode, stepper.data.x_cur, at),
                             stepper.data.h_cur))]
           /\ last' = [last EXCEPT !.evals =
                  Append(last.evals, << stepper.data.x_cur, at >>)]
    /\ UNCHANGED << controller, steps, step_size, cur_step, ode, method, data,
                    pc, steps0, calls >>

\* dy returns, step() stores and returns y_cur, run() pushes it and counts
StepFinish ==
    /\ pc = "dy"
    /\ Len(stepper.ks) = Stages(method)
    /\ stepper' = [stepper EXCEPT !.data.y_cur =
                       StageSum(method, stepper.data, stepper.ks)]
    /\ last' = [last EXCEPT !.commits = last.commits + 1]
    /\ data' = Append(data, stepper'.data.y_cur)
    /\ steps' = steps - 1
    /\ pc' = "run"
    /\ UNCHANGED << controller, step_size, cur_step, ode, method, steps0,
                    calls >>

NextEvals == Run \/ StepEnter \/ Evaluate \/ StepFinish \/ Return

SpecEvals == InitEvals /\ [][NextEvals]_vars


----------------------------------------------------------------------------
(* sort.rs: co_sort.  The state is [arr, co, panic]; an element of co_arr  *)
(* is modelled by the position it started at.                              *)

\* co_arr.swap(a, b)
co_swap(st0, a, b) ==
    Only({ IF st.panic # NoPanic THEN st
           ELSE IF a < 0 \/ a >= Len(st.co) \/ b < 0 \/ b >= Len(st.co)
           THEN [st EXCEPT !.panic = OutOfBounds]
           ELSE [st EXCEPT !.co[a + 1] = st.co[b + 1],
                           !.co[b + 1] = st.co[a + 1]]
           : st \in {st0} })

\* the inner loop exchanging equal keys as well
RECURSIVE co_insert_down_eager(_, _)
co_insert_down_eager(st0, j) ==
    Only({ IF st.panic = NoPanic /\ j > 0 /\ st.arr[j + 1] <= st.arr[j]
           THEN co_insert_down_eager(co_swap(swap(st, j, j - 1), j, j - 1), j - 1)
           ELSE st
           : st \in {st0} })

\* while j > 0 && arr[j] < arr[j - 1] { arr.swap; co_arr.swap; j -= 1; }
RECURSIVE co_insert_down(_, _)
co_insert_down(st0, j) ==
    Only({ IF st.panic = NoPanic /\ j > 0 /\ st.arr[j + 1] < st.arr[j]
           THEN co_insert_down(co_swap(swap(st, j, j - 1), j, j - 1), j - 1)
           ELSE st
           : st \in {st0} })

\* for i in 1..arr.len()
RECURSIVE co_sort_loop(_, _)
co_sort_loop(st0, i) ==
    Only({ IF st.panic # NoPanic \/ i >= Len(st.arr) THEN st
           ELSE co_sort_loop(co_insert_down(st, i), i + 1)
           : st \in {st0} })

co_sort(arr, co_arr) ==
    Only({ IF st.panic # NoPanic THEN Panics(st.panic)
           ELSE Returns(<< st.arr, st.co >>)
           : st \in {co_sort_loop([arr |-> arr, co |-> co_arr,
                                   panic |-> NoPanic], 1)} })

CoSortMaxLen == 4

\* keys with duplicates, and companions of the same length or one off
CoSortInputs ==
    { << arr, [i \in 1..k |-> i] >> :
        arr \in UNION { [1..n -> SortValues] : n \in 0..CoSortMaxLen },
        k \in 0..(CoSortMaxLen + 1) }

CallCoSort ==
    \E in \in { p \in CoSortInputs :
                    Len(p[2]) \in {Len(p[1]) - 1, Len(p[1]), Len(p[1]) + 1} } :
        Called("co_sort", in, co_sort(in[1], in[2]))

NextCoSort == CallCoSort

SpecCoSort == InitLib /\ [][NextCoSort]_vars


----------------------------------------------------------------------------
(* fourier.rs: bit_reversed called on its own, with every u8 for a *)

BitSizeMax == 8

CallBitReversed ==
    \E a \in 0..255, bit_size \in 0..BitSizeMax :
        Called("bit_reversed", << a, bit_size >>,
               Returns(bit_reversed(a, bit_size)))

NextBitReversed == CallBitReversed

SpecBitReversed == InitLib /\ [][NextBitReversed]_vars

----------------------------------------------------------------------------
(* Properties *)

Zero == F(0)

One == Dec(1, 1)

FixedMethods == {"Euler", "Midpoint", "RungeKutta"}

\* h * max(0.9 * err^(-0.2), 0.2): the step size a rejection is to return.
RejectedStep(err, h) ==
    FMul(h, FMax(FMul(Dec(9, 10), FPowf(err, Dec(-2, 10))), Dec(2, 10)))

\* max_scale for a zero error, else 0.9 * err^(-0.2) clamped to [0.2, 10].
ExpectedScale(err) ==
    IF FEq(err, Zero) THEN Dec(10, 1)
    ELSE FMax(Dec(2, 10),
              FMin(Dec(10, 1), FMul(Dec(9, 10), FPowf(err, Dec(-2, 10)))))

\* C1: run() invokes stepper.step() exactly steps0 times and then returns with
\* steps = 0 and steps0 elements in data.  (FairSpec)
C1_RunTakesAllSteps ==
    (pc = "run") ~>
        (pc = "done" /\ steps = 0 /\ calls = steps0 /\ Len(data) = steps0)

\* C1, the part that holds: whenever run() has returned, step() was invoked
\* exactly steps0 times, and in between steps + calls accounts for steps0.
C1_CountOnReturn ==
    /\ pc = "done" => steps = 0 /\ calls = steps0 /\ Len(data) = steps0
    /\ pc = "run" => steps + calls = steps0 /\ Len(data) = calls

\* C2: a call of success with err <= 1.0 accepts and returns the h it was
\* given, unchanged.  (SpecCtl)
C2_AcceptReturnsH ==
    (last.called /\ FLe(last.err, One)) => (last.ok /\ last.ret = last.h)

C2_Witness ==
    /\ last.called /\ FLe(last.err, One) /\ last.ok
    /\ FGt(last.h, Zero)
    /\ controller.h_next # last.h

\* C3 as stated: a call with err > 1.0 and h > 0 rejects and returns
\* h * max(0.9 * err^(-0.2), 0.2), which is strictly smaller than h.  (SpecCtl)
C3_Original ==
    (last.called /\ FGt(last.err, One) /\ FGt(last.h, Zero)) =>
        /\ ~last.ok
        /\ last.ret = RejectedStep(last.err, last.h)
        /\ FLt(last.ret, last.h)

\* C3 as amended: a call with err > 1.0 and h > 0 rejects and returns
\* h * max(0.9 * err^(-0.2), 0.2) rounded, which is never larger than h and is
\* strictly smaller as soon as h is six quanta or more.  (SpecCtl)
C3_RejectShrinks ==
    (last.called /\ FGt(last.err, One) /\ FGt(last.h, Zero)) =>
        /\ ~last.ok
        /\ last.ret = RejectedStep(last.err, last.h)
        /\ FLe(last.ret, last.h)
        /\ last.h.v >= 6 => FLt(last.ret, last.h)

C3_Witness ==
    /\ last.called /\ FGt(last.err, One) /\ ~last.ok
    /\ last.h = F(6)
    /\ FLt(last.ret, last.h) /\ FGt(last.ret, Zero)

\* C4: an accepting call that directly follows a rejecting one sets
\* h_next = h * min(scale, 1.0), so h_next <= h; h_next exceeds h only when
\* the call before was not a rejection.  (SpecCtl)
C4_NoGrowthAfterReject ==
    (last.called /\ last.ok) =>
        /\ last.after_reject =>
              /\ controller.h_next =
                     FMul(last.h, FMin(ExpectedScale(last.err), One))
              /\ FLe(controller.h_next, last.h)
        /\ FGt(controller.h_next, last.h) => ~last.after_reject

C4_Witness ==
    /\ last.called /\ last.ok /\ last.after_reject
    /\ FGt(ExpectedScale(last.err), One)
    /\ FGt(last.h, Zero)
    /\ controller.h_next = last.h

C6_Original ==
    (last.called /\ ~last.ok /\ FGt(last.err, One) /\ FGt(last.h, Zero)) =>
        \A e2 \in ErrInputs :
            FGt(e2, last.err) =>
                FLt(success(controller, e2, last.h).h, last.ret)

\* C6 as amended: for fixed h > 0 and errors 1.0 < e1 < e2, success(e2, h)
\* returns a step size no larger than success(e1, h); from err = 4.5^5 on
\* the floor min_scale decides and the size returned is 0.2 * h whatever the
\* error.  (SpecCtl)
C6_NonIncreasing ==
    (last.called /\ ~last.ok /\ FGt(last.err, One) /\ FGt(last.h, Zero)) =>
        /\ \A e2 \in ErrInputs :
               FGt(e2, last.err) =>
                   FLe(success(controller, e2, last.h).h, last.ret)
        /\ FLe(Dec(59049, 32), last.err) =>
               last.ret = FMul(last.h, Dec(2, 10))

C6_Witness ==
    /\ last.called /\ ~last.ok
    /\ last.err = Dec(2000, 1)
    /\ last.h = One
    /\ success(controller, Dec(2100, 1), last.h).h = last.ret

\* C7: on every accepted step of a Dormand-Prince stepper x grows by
\* h_did > 0, and no rejected attempt changes x.  (Spec)
C7_TimeAdvances ==
    [][ /\ (method = "DormandPrince" /\ Len(data') = Len(data) + 1) =>
              /\ stepper'.x = FAdd(stepper.x, stepper'.h_did)
              /\ FGt(stepper'.h_did, Zero)
              /\ FGt(stepper'.x, stepper.x)
        /\ (method = "DormandPrince" /\ Len(data') = Len(data)) =>
              stepper'.x = stepper.x ]_vars

\* C8: the step size used for an attempt, h_cur, is strictly positive in
\* every reachable state of a stepper built with h > 0.  (Spec)
C8_StepSizePositive == FGt(stepper.data.h_cur, Zero)

\* C9: every call of DormandPrince::step terminates: after finitely many
\* rejected attempts the controller accepts and the step is committed.
\* (FairSpec)
C9_StepConverges == (pc \in {"step", "decided"}) ~> (pc = "run")

\* C10: for Euler, Midpoint and RungeKutta the stored time x_cur stays 0 and
\* the step size h_cur stays the one given at construction, whatever the
\* number of step() calls: of the stepper's data only y_cur changes.  (Spec)
C10_FixedStepFrame ==
    method \in FixedMethods =>
        /\ stepper.data.x_cur = Zero
        /\ stepper.data.h_cur = step_size
        /\ stepper.data =
               [StepperData_new(step_size, cur_step)
                    EXCEPT !.y_cur = stepper.data.y_cur]

C10_Witness ==
    /\ method \in FixedMethods
    /\ calls = 2
    /\ stepper.data.y_cur # cur_step
    /\ stepper.data.x_cur = Zero

\* C11 as stated: the 300 Euler steps of the projectile test record a state
\* whose y-component (index 1) is at or below zero.  (SpecProjectile)
C11_Original ==
    pc = "done" => \E i \in 1..Len(data) : FLe(data[i][2], Zero)

\* C11 as amended: the 300 Euler steps of the projectile test end at t = 0.3
\* with every recorded y-component above zero; the last one, the lowest after
\* the apex, is 1.36 to within a thousandth.  (SpecProjectile)
C11_ProjectileStaysAloft ==
    /\ \A i \in 1..Len(data) : FGt(data[i][2], Dec(1359, 1000))
    /\ pc = "done" =>
          /\ Len(data) = ProjectileSteps
          /\ FLt(data[Len(data)][2], Dec(1361, 1000))
          /\ FGt(data[Len(data)][1], Dec(299, 1000))
          /\ FLt(data[Len(data)][1], Dec(301, 1000))

C11_Witness ==
    /\ pc = "done"
    /\ method = "Euler" /\ ode = "gravity"
    /\ calls = ProjectileSteps
    /\ Len(data) = ProjectileSteps
    /\ FGt(data[Len(data)][2], Zero)

\* C12: Vector::<N>::new(slice) fails whenever slice.len() # N, and for
\* slice.len() = N returns the vector whose i-th component is slice[i].
\* (SpecVector)
C12_NewChecksLength ==
    (pc = "returned" /\ last.fn = "Vector::new") =>
        \E N \in {last.args[1]}, slice \in {last.args[2]} :
            /\ Len(slice) # N => last.panic
            /\ Len(slice) = N =>
                  /\ ~last.panic
                  /\ DOMAIN last.value = 1..N
                  /\ \A i \in 1..N : last.value[i] = slice[i]

\* a Vector<3> asked for from a slice of two
C12_Witness ==
    /\ pc = "returned" /\ last.fn = "Vector::new"
    /\ last.args[1] = 3
    /\ Len(last.args[2]) = 2
    /\ last.panic

\* C13: for N = 3, cross_product of the unit x-axis with the unit y-axis
\* returns the unit z-axis.  (SpecVector)
C13_CrossProductOfAxes ==
    ( /\ pc = "returned" /\ last.fn = "cross_product"
      /\ last.args[1] = 3
      /\ last.args[2] = << Dec(1, 1), F(0), F(0) >>
      /\ last.args[3] = << F(0), Dec(1, 1), F(0) >> ) =>
        /\ ~last.panic
        /\ last.value = << F(0), F(0), Dec(1, 1) >>

\* the number of elements of seq equal to v
Count(seq, v) == Cardinality({ i \in DOMAIN seq : seq[i] = v })

Ascending(seq) == \A i \in 1..(Len(seq) - 1) : seq[i] <= seq[i + 1]

\* C14: for every slice of length >= 1, quick(arr) terminates without an
\* out-of-bounds access or an index underflow and leaves arr in ascending
\* order and a permutation of what it held.  (SpecSort)
C14_QuickSorts ==
    (pc = "returned" /\ last.fn = "quick" /\ Len(last.args[1]) >= 1) =>
        /\ ~last.panic
        /\ ~last.loops
        /\ Len(last.value) = Len(last.args[1])
        /\ Ascending(last.value)
        /\ \A v \in SortValues : Count(last.value, v) = Count(last.args[1], v)

\* nine elements with duplicates, out of order: partitioned before sorted
C14_Witness ==
    /\ pc = "returned" /\ last.fn = "quick"
    /\ last.args[1] = << 2, 1, 2, 1, 2, 1, 2, 1, 1 >>
    /\ last.value = << 1, 1, 1, 1, 1, 2, 2, 2, 2 >>


\* C15: fft(arr) panics for every slice of odd length, length 1 included.
\* (SpecFourier)
C15_OddLengthPanics ==
    (pc = "returned" /\ last.fn = "fft" /\ Len(last.args[1]) % 2 = 1) =>
        last.panic

\* what does hold: every odd length of three or more panics
C15_OddLengthFromThreePanics ==
    (pc = "returned" /\ last.fn = "fft" /\ Len(last.args[1]) % 2 = 1
        /\ Len(last.args[1]) >= 3) => last.panic


\* C16: when DormandPrince::step returns, the commit has been applied: y is
\* the accepted y_out, dydx the accepted dydxnew, h_did the step size of the
\* accepted pass, x_old the time before the call, x = x_old + h_did, and
\* h_next the controller's h_next.  (Spec)
C16_CommitApplied ==
    [][ (pc = "decided" /\ pc' = "run") =>
            /\ last.ok
            /\ stepper'.y = stepper.y_out
            /\ stepper'.dydx = stepper.dydxnew
            /\ stepper'.h_did = last.h
            /\ stepper'.h_did = stepper.data.h_cur
            /\ stepper'.x_old = stepper.x
            /\ stepper'.x = FAdd(stepper'.x_old, stepper'.h_did)
            /\ stepper'.h_next = controller.h_next
            /\ data' = Append(data, stepper.y_out) ]_vars

\* a step has returned whose accepted pass followed a rejected one, and it
\* moved the solution
C16_Witness ==
    /\ method = "DormandPrince" /\ pc = "run" /\ Len(data) = 1
    /\ last.ok /\ last.after_reject
    /\ stepper.h_did = last.h /\ FLt(stepper.h_did, step_size)
    /\ FGt(stepper.h_did, Zero)
    /\ stepper.x = stepper.h_did
    /\ stepper.y = stepper.y_out /\ stepper.y # cur_step

\* C17: a rejected pass leaves y, dydx (and x) as they were, and the next
\* pass starts with h_cur the step size the controller returned, which is
\* strictly smaller than the one rejected.  (Spec)
C17_RejectedPassRetriesSmaller ==
    [][ /\ (method = "DormandPrince" /\ pc' \in {"decided", "step"}) =>
              /\ stepper'.y = stepper.y
              /\ stepper'.dydx = stepper.dydx
              /\ stepper'.x = stepper.x
        /\ (pc = "decided" /\ pc' = "step") =>
              /\ ~last.ok
              /\ stepper'.data.h_cur = last.ret
              /\ FLt(stepper'.data.h_cur, stepper.data.h_cur) ]_vars

\* what does hold: the retry is never larger
C17_RejectedPassRetriesNotLarger ==
    [][ /\ (method = "DormandPrince" /\ pc' \in {"decided", "step"}) =>
              /\ stepper'.y = stepper.y
              /\ stepper'.dydx = stepper.dydx
              /\ stepper'.x = stepper.x
        /\ (pc = "decided" /\ pc' = "step") =>
              /\ ~last.ok
              /\ stepper'.data.h_cur = last.ret
              /\ FLe(stepper'.data.h_cur, stepper.data.h_cur) ]_vars

\* C18: at the start of every call of DormandPrince::step, the first
\* included, dydx is the derivative at the current (x, y).  (Spec)
C18_SlopeCurrentAtStepStart ==
    (method = "DormandPrince" /\ pc = "run" /\ RunContinues(steps)) =>
        stepper.dydx = derive(ode, stepper.x, stepper.y)

\* what does hold: it is so from the second call on
C18_SlopeCurrentAfterFirstStep ==
    (method = "DormandPrince" /\ pc = "run" /\ Len(data) >= 1) =>
        stepper.dydx = derive(ode, stepper.x, stepper.y)


\* C19: err_old is 1e-4 in a fresh controller, an accepting call sets it to
\* max(err, 1e-4), and so it lies in [1e-4, 1.0] whatever calls were made
\* with err >= 0.  (SpecCtl)
C19_ErrOldInRange ==
    /\ FLe(Dec(1, 10000), controller.err_old)
    /\ FLe(controller.err_old, One)
    /\ ~last.called => controller.err_old = Dec(1, 10000)
    /\ (last.called /\ last.ok) =>
           controller.err_old = FMax(last.err, Dec(1, 10000))

\* an accepted step with an error below the floor: err_old is the floor
C19_Witness ==
    /\ last.called /\ last.ok
    /\ FGt(last.err, Zero) /\ FLt(last.err, Dec(1, 10000))
    /\ controller.err_old = Dec(1, 10000)

\* C20: rejected is true exactly when the latest call of success returned
\* false, which a call with a number for err does exactly when err > 1.0; it
\* is false in a fresh controller and after every accepting call.  (SpecCtl)
C20_RejectedIffLastCallFailed ==
    /\ controller.rejected <=> (last.called /\ ~last.ok)
    /\ (last.called /\ ~IsNaN(last.err)) => (~last.ok <=> FGt(last.err, One))

\* an accepting call that followed a rejecting one has cleared the flag
C20_Witness ==
    /\ last.called /\ last.ok /\ last.after_reject
    /\ ~controller.rejected


\* C21: each Euler step() replaces the stored y by y + h * f(x, y), with x, y
\* and h the stepper's stored time, state and step size before the call, and
\* returns exactly the new stored state (the element run() records).  (Spec)
C21_EulerStep ==
    [][ (method = "Euler" /\ calls' = calls + 1) =>
            \E d \in {derive(ode, stepper.data.x_cur, stepper.data.y_cur)} :
                /\ Len(stepper'.data.y_cur) = Len(stepper.data.y_cur)
                /\ \A i \in 1..Len(stepper.data.y_cur) :
                       stepper'.data.y_cur[i] =
                           FAdd(stepper.data.y_cur[i],
                                FMul(stepper.data.h_cur, d[i]))
                /\ data' = Append(data, stepper'.data.y_cur) ]_vars

\* two Euler steps of y' = y from 1 with h = 1/2: 1.5, then 2.25
C21_Witness ==
    /\ method = "Euler" /\ ode = "growth" /\ step_size = Dec(1, 2)
    /\ data = << << Dec(15, 10) >>, << Dec(225, 100) >> >>
    /\ stepper.data.y_cur = << Dec(225, 100) >>

\* the four stages of a RungeKutta step from y at time x with step size h,
\* and their weighted sum
C22_Stage(f, x, y, h, k, part) == mul(derive(f, x, add(y, div(k, part))), h)

C22_Expected(f, x, y, h) ==
    Only({ Only({ Only({ Only({
        add(add(add(add(y, div(k1, Dec(6, 1))), div(k2, Dec(3, 1))),
                div(k3, Dec(3, 1))), div(k4, Dec(6, 1)))
        : k4 \in {C22_Stage(f, x, y, h, k3, One)} })
        : k3 \in {C22_Stage(f, x, y, h, k2, Dec(2, 1))} })
        : k2 \in {C22_Stage(f, x, y, h, k1, Dec(2, 1))} })
        : k1 \in {mul(derive(f, x, y), h)} })

\* C22: each RungeKutta step() replaces the stored y by
\* y + k1/6 + k2/3 + k3/3 + k4/6 with k1 = h*f(x, y), k2 = h*f(x, y + k1/2),
\* k3 = h*f(x, y + k2/2), k4 = h*f(x, y + k3), all at the same stored time x,
\* and returns the new stored state.  (Spec)
C22_RungeKuttaStep ==
    [][ (method = "RungeKutta" /\ calls' = calls + 1) =>
            /\ stepper'.data.y_cur =
                   C22_Expected(ode, stepper.data.x_cur, stepper.data.y_cur,
                                stepper.data.h_cur)
            /\ data' = Append(data, stepper'.data.y_cur) ]_vars

\* one RungeKutta step of y' = y from 1 with h = 1/2: 1.6484375, rounded
C22_Witness ==
    /\ method = "RungeKutta" /\ ode = "growth" /\ step_size = Dec(1, 2)
    /\ Len(data) = 1
    /\ FGt(data[1][1], Dec(16484, 10000)) /\ FLt(data[1][1], Dec(16485, 10000))
    /\ stepper.data.y_cur = data[1]


\* the states at which one step from y at time x with step size h is to
\* evaluate the derivative function, in order
C23_Points(m, f, x, y, h) ==
    IF m = "Euler" THEN << y >>
    ELSE Only({
        IF m = "Midpoint" THEN << y, add(y, div(k1, Dec(2, 1))) >>
        ELSE Only({ Only({
            << y, add(y, div(k1, Dec(2, 1))), add(y, div(k2, Dec(2, 1))),
               add(y, k3) >>
            : k3 \in {C22_Stage(f, x, y, h, k2, Dec(2, 1))} })
            : k2 \in {C22_Stage(f, x, y, h, k1, Dec(2, 1))} })
        : k1 \in {mul(derive(f, x, y), h)} })

\* C23: one call of step() evaluates the derivative function exactly once
\* for Euler (at y), twice for Midpoint (at y, then y + k1/2) and four times
\* for RungeKutta (at y, y + k1/2, y + k2/2, y + k3), in that order, and
\* commits exactly once, with no retry.  (SpecEvals)
C23_EvaluationsPerStep ==
    /\ (pc = "dy") =>
           /\ last.commits = 0
           /\ Len(last.evals) <= Len(C23_Points(method, ode, Zero, last.y0,
                                                step_size))
    /\ (pc \in {"run", "done"} /\ last.called) =>
           /\ last.commits = 1
           /\ Len(last.evals) = CASE method = "Euler" -> 1
                                  [] method = "Midpoint" -> 2
                                  [] method = "RungeKutta" -> 4
           /\ \E pts \in {C23_Points(method, ode, stepper.data.x_cur, last.y0,
                                     stepper.data.h_cur)} :
                  last.evals = [i \in 1..Len(pts) |->
                                    << stepper.data.x_cur, pts[i] >>]
           /\ stepper.data.y_cur =
                  FixedStep_dy(method, [data |-> [stepper.data EXCEPT
                                                     !.y_cur = last.y0]], ode)

\* a RungeKutta step of y' = y has returned: four evaluations at four
\* different states, the first at the state stored before
C23_Witness ==
    /\ method = "RungeKutta" /\ ode = "growth" /\ pc = "run"
    /\ last.called /\ last.commits = 1
    /\ Len(last.evals) = 4
    /\ last.evals[1][2] = last.y0
    /\ Cardinality({ last.evals[i][2] : i \in 1..4 }) = 4


\* the state the latest step ended in: the last element recorded, or p0
\* (which the driver keeps in cur_step) when none is
C24_Latest == IF data = << >> THEN cur_step ELSE data[Len(data)]

\* C24: the trajectory is append-only and ordered: each step() of run()
\* appends exactly one element and changes or removes no earlier one; the
\* first element is the state after the first step from p0, which is not
\* recorded itself, and every later one is the result of one step applied to
\* the one before it.  (Spec)
C24_TrajectoryAppendOnly ==
    /\ [](/\ Len(data) + steps = steps0
          /\ (pc \in {"new", "run", "done"}) => Len(data) = calls
          /\ (pc = "new") => data = << >>
          /\ C24_Latest = IF method = "DormandPrince" THEN stepper.y
                          ELSE stepper.data.y_cur)
    /\ [][ \/ data' = data
           \/ /\ Len(data') = Len(data) + 1
              /\ SubSeq(data', 1, Len(data)) = data
              /\ steps' = steps - 1
              /\ data'[Len(data')] =
                     IF method = "DormandPrince" THEN stepper.y_out
                     ELSE FixedStep_dy(method,
                              [data |-> [stepper.data EXCEPT
                                            !.y_cur = C24_Latest]], ode) ]_vars

\* three steps recorded, no two alike and none of them p0
C24_Witness ==
    /\ pc = "done" /\ Len(data) = 3 /\ calls = 3
    /\ Cardinality({ data[i] : i \in 1..3 } \cup {cur_step}) = 4


\* C25: for arr and co_arr of equal length, co_sort leaves arr ascending and
\* applies the same permutation to co_arr: the pairs (arr[i], co_arr[i]) are
\* the same before and after, and pairs with equal keys keep their relative
\* order.  (SpecCoSort; co_arr[i] is the position the element started at)
C25_CoSortStable ==
    (pc = "returned" /\ last.fn = "co_sort"
        /\ Len(last.args[1]) = Len(last.args[2])) =>
        /\ ~last.panic
        /\ \E n \in {Len(last.args[1])} :
           \E arr \in {last.value[1]} :
           \E co \in {last.value[2]} :
              /\ Len(arr) = n /\ Len(co) = n
              /\ Ascending(arr)
              /\ { co[i] : i \in 1..n } = 1..n
              /\ \A i \in 1..n : arr[i] = last.args[1][co[i]]
              /\ \A i, j \in 1..n :
                     (i < j /\ arr[i] = arr[j]) => co[i] < co[j]

\* keys 2, 1, 2, 1: the equal keys keep their order
C25_Witness ==
    /\ pc = "returned" /\ last.fn = "co_sort"
    /\ last.args = << << 2, 1, 2, 1 >>, << 1, 2, 3, 4 >> >>
    /\ last.value = << << 1, 1, 2, 2 >>, << 2, 4, 1, 3 >> >>


\* bit i of x
C26_Bit(x, i) == (x \div Pow2(i)) % 2

\* C26: for every bit_size in 0..=8 and every a < 2^bit_size,
\* bit_reversed(a, bit_size) is the value whose bit i is bit
\* (bit_size - 1 - i) of a, so reversing twice gives a again.
\* (SpecBitReversed)
C26_BitReversedInvolution ==
    (pc = "returned" /\ last.fn = "bit_reversed" /\ last.args[2] <= 8
        /\ last.args[1] < Pow2(last.args[2])) =>
        \E a \in {last.args[1]} : \E bit_size \in {last.args[2]} :
        \E r \in {last.value} :
            /\ ~last.panic
            /\ r \in 0..(Pow2(bit_size) - 1)
            /\ \A i \in 0..(bit_size - 1) :
                   C26_Bit(r, i) = C26_Bit(a, bit_size - 1 - i)
            /\ bit_reversed(r, bit_size) = a

\* the doc test: 0b11000101 reversed over 8 bits is 0b10100011
C26_Witness ==
    /\ pc = "returned" /\ last.fn = "bit_reversed"
    /\ last.args = << 197, 8 >>
    /\ last.value = 163


\* C27: over any sequence of DormandPrince step() calls h_cur never
\* increases: it changes only on a rejection, to a smaller value; the h_next
\* proposed on acceptance is stored in the controller and the stepper but
\* never assigned to h_cur.  (Spec)
C27_StepSizeNeverGrows ==
    /\ [](method = "DormandPrince" => FLe(stepper.data.h_cur, step_size))
    /\ [][ method = "DormandPrince" =>
              /\ FLe(stepper'.data.h_cur, stepper.data.h_cur)
              /\ (stepper'.data.h_cur # stepper.data.h_cur) =>
                     /\ pc = "decided" /\ ~last.ok /\ pc' = "step"
                     /\ FLt(stepper'.data.h_cur, stepper.data.h_cur)
              /\ (pc = "decided" /\ pc' = "run") =>
                     /\ stepper'.data.h_cur = stepper.data.h_cur
                     /\ stepper'.h_next = controller.h_next ]_vars

\* two steps have returned, both taken with the step size given at the
\* start, although a larger one is proposed
C27_Witness ==
    /\ method = "DormandPrince" /\ pc = "run" /\ Len(data) = 2
    /\ stepper.data.h_cur = step_size
    /\ stepper.h_did = step_size
    /\ stepper.x = FAdd(step_size, step_size)
    /\ FGt(stepper.h_next, stepper.data.h_cur)
    /\ stepper.h_next = controller.h_next


\* C28: once run() has returned, steps is 0, and a further call of run()
\* calls step() no more and leaves the trajectory and the stepper as they
\* are.  (Spec)
C28_RunIdempotent ==
    /\ [](pc = "done" => steps = 0)
    /\ [][ steps = 0 =>
              /\ steps' = 0
              /\ calls' = calls
              /\ data' = data
              /\ stepper' = stepper
              /\ pc' \in {"run", "done"} ]_vars

\* run() has been called on a solver that took its three steps
C28_Witness ==
    /\ steps0 = 3 /\ steps = 0 /\ Len(data) = 3 /\ calls = 3
    /\ pc = "run"
    /\ stepper.data.y_cur # cur_step


\* C29: at every entry to and every return from DormandPrince::step the
\* controller's rejected flag is false, so the cap on h_next can apply only to
\* an acceptance that follows a rejection within the same call of step, never
\* to the first pass of a call.  (Spec)
C29_FlagClearBetweenSteps ==
    /\ []((method = "DormandPrince" /\ pc \in {"new", "run", "done"}) =>
              ~controller.rejected)
    /\ [][ (method = "DormandPrince" /\ pc' = "decided") =>
              /\ (pc = "run") => ~last'.after_reject
              /\ last'.after_reject => (pc = "step" /\ ~last.ok)
              /\ (last'.ok /\ ~last'.after_reject) =>
                     controller'.h_next =
                         FMul(last'.h, ExpectedScale(last'.err)) ]_vars

\* a step has returned whose accepted pass followed a rejected one and had
\* its proposal capped at the step size used; the flag is clear again
C29_Witness ==
    /\ method = "DormandPrince" /\ pc = "run" /\ Len(data) >= 1
    /\ last.ok /\ last.after_reject
    /\ FGt(ExpectedScale(last.err), One)
    /\ controller.h_next = last.h
    /\ ~controller.rejected


\* C30: a rejecting call success(err, h), err > 1.0, changes only the
\* rejected flag: h_next and err_old keep the values they had.  (SpecCtl)
C30_RejectFrame ==
    [][ (last'.called /\ ~last'.ok) =>
            /\ controller' = [controller EXCEPT !.rejected = TRUE]
            /\ controller'.h_next = controller.h_next
            /\ controller'.err_old = controller.err_old ]_vars

\* a call with err = 2 was rejected by a controller that had accepted a step
\* before: the proposal and the error of that step are still there
C30_Witness ==
    /\ last.called /\ ~last.ok /\ last.err = Dec(2, 1)
    /\ controller.rejected
    /\ controller.h_next # Zero
    /\ controller.err_old = Dec(1, 2)

====
